---- MODULE Spec2Model ----
(***************************************************************************)
(* SIN-Solver: the interaction state machine (state-machine.ts), the       *)
(* hybrid deception hunter (ml/ml-deception-hunter.ts) and the ensemble    *)
(* scoring functions (ml/ensemble.ts).                                     *)
(*                                                                         *)
(* JavaScript objects are modelled as a heap: `objs` holds the IState      *)
(* objects, `maps` the data maps they point to.  A spread copy {...o}      *)
(* allocates a new object whose data field is the SAME map reference.      *)
(***************************************************************************)
EXTENDS Integers, Sequences, FiniteSets, TLC

VARIABLES
    config,     \* the IStateConfig given to the constructor
    objs,       \* heap of IState objects: ref -> [id, name, timestamp, data]
    maps,       \* heap of data maps: ref -> set of keys present
    current,    \* StateMachine.current (a ref into objs)
    history,    \* StateMachine.history (a sequence of refs into objs)
    nextId,     \* number of ids generateId has produced
    clock,      \* Date.now()
    held,       \* refs of the objects getState/getHistory have handed out
    given,      \* refs of the objects setState has returned
    ret,        \* the value returned by the last call
    last,       \* the last call: operation, argument, outcome, state before, time
    calls,      \* names of the successful setState/transition calls, in order
    resetUsed,  \* reset() has been called since construction
    mutations,  \* number of writes the caller has made to objects it was handed
    \* MLDeceptionHunter
    patterns,   \* baseHunterPatterns
    mlEnabled,  \* mlEnabled
    cnnModel,   \* cnnModel: 0 (null) or a ref into models
    lstmModel,  \* lstmModel
    ensemble,   \* ensemble
    models,     \* heap of learned models: ref -> [kind, live]
    initPc,     \* where each initializeML call stands
    initMade,   \* the model each initializeML call is awaiting
    phase,      \* "ready" once an initializeML call has completed, until dispose
    hLast,      \* the last hunter call and its outcome
    \* EnsembleModel scoring functions
    sRegex,     \* first argument of calculateHybridScore
    sMl,        \* second argument of calculateHybridScore
    sHybrid,    \* its result, "none" before the call
    sVerdict,   \* the last two getVerdict calls, the latest first
    \* DeceptionHunter
    bPatterns,  \* patterns
    bLast,      \* the last DeceptionHunter call and its outcome
    \* CNNModel, LSTMModel, EnsembleModel used on their own
    inst,       \* per instance: model is set, isCompiled / isInitialized
    disposed,   \* instances dispose() has been called on
    iLast,      \* the last call on an instance and its outcome
    \* MLPreprocessor
    vocabSize,  \* vocabSize
    sequenceLength, \* sequenceLength
    vocab,      \* vocab: token -> index
    vCopy,      \* the map getVocab handed out last, as the caller left it
    pLast,      \* the last preprocessor call and its outcome
    \* calls suspended at an await
    trPc,       \* transition calls: idle, or awaiting setState's promise
    awPc,       \* analyzeWithML calls: where each stands, what it holds
    tensors     \* every tensor the preprocessor created: [kind, live, by]

smVars == <<config, objs, maps, current, history, nextId, clock, held, given, ret,
            last, calls, resetUsed, mutations>>

hunterVars == <<patterns, mlEnabled, cnnModel, lstmModel, ensemble, models,
               initPc, initMade, phase, hLast>>

scoreVars == <<sRegex, sMl, sHybrid, sVerdict>>

baseVars == <<bPatterns, bLast>>

modelVars == <<inst, disposed, iLast>>

prepVars == <<vocabSize, sequenceLength, vocab, vCopy, pLast>>

flightVars == <<trPc, awPc, tensors>>

extVars == <<modelVars, prepVars, flightVars>>

vars == <<smVars, hunterVars, scoreVars, baseVars, extVars>>

----------------------------------------------------------------------------
(* Bounds *)

MaxObjs == 6     \* IState objects allocated in one run
MaxClock == 1    \* values of Date.now() seen in one run
MaxMutations == 1 \* caller writes to returned objects in one run
MaxPatterns == 6  \* registered patterns (four are predefined)
MaxModels == 6    \* learned models created in one run
MaxInitCalls == 2 \* initializeML calls in flight at once
MaxTokens == 2    \* tokens in one addTokens call
MaxInteractions == 3 \* interaction records in one history
MaxTransCalls == 2 \* transition calls in flight at once
MaxTensors == 3   \* tensors the preprocessor creates in one run
MaxAnalyses == 1  \* analyzeWithML calls in flight at once

Names == {"IDLE", "PROCESSING", "INVALID"}
Keys == {"k"}

NoRet == [kind |-> "none"]

----------------------------------------------------------------------------
(* Configurations.  The constructor stores whatever it is given, so the    *)
(* family holds well-formed graphs and graphs whose initial state or whose  *)
(* table targets are outside the states set.                               *)

Table(idle, processing) ==
    [n \in Names |-> IF n = "IDLE" THEN idle
                     ELSE IF n = "PROCESSING" THEN processing ELSE {}]

Configs ==
    { \* the graphs of the test suite
      [initialState |-> "IDLE", states |-> {"IDLE", "PROCESSING"},
       transitions |-> Table({"PROCESSING"}, {})],
      [initialState |-> "IDLE", states |-> {"IDLE", "PROCESSING"},
       transitions |-> Table({"PROCESSING"}, {"IDLE"})],
      \* self loops; no table at all
      [initialState |-> "IDLE", states |-> {"IDLE", "PROCESSING"},
       transitions |-> Table({"IDLE", "PROCESSING"}, {"PROCESSING"})],
      [initialState |-> "PROCESSING", states |-> {"IDLE", "PROCESSING"},
       transitions |-> Table({}, {})],
      \* a table target outside the states set
      [initialState |-> "IDLE", states |-> {"IDLE", "PROCESSING"},
       transitions |-> Table({"PROCESSING", "INVALID"}, {"INVALID"})],
      \* a table source outside the states set
      [initialState |-> "IDLE", states |-> {"IDLE"},
       transitions |-> Table({"IDLE"}, {"IDLE"})],
      \* an initial state outside the states set
      [initialState |-> "INVALID", states |-> {"IDLE", "PROCESSING"},
       transitions |-> Table({"PROCESSING"}, {"IDLE"})] }

----------------------------------------------------------------------------
(* Heap helpers *)

Deep(o) == [id |-> o.id, name |-> o.name, timestamp |-> o.timestamp,
            data |-> maps[o.data]]

View == [current |-> Deep(objs[current]),
         history |-> [i \in 1..Len(history) |-> Deep(objs[history[i]])]]

generateId == nextId + 1

\* this.transitions[from] || []
Allowed(from) == config.transitions[from]

\* setState validating against the transition table instead of the states set
StatesIncludes_ByTable(name) == name \in Allowed(objs[current].name)

\* this.states.includes(name)
StatesIncludes(name) == name \in config.states

\* overwriting the latest entry instead of appending
HistoryPush_Overwrite(h, ref) == [h EXCEPT ![Len(h)] = ref]

\* this.history.push(e)
HistoryPush(h, ref) == Append(h, ref)

\* reset() that keeps the old entries
HistoryOnly_Keep(ref) == Append(history, ref)

\* reset() that cuts the history down to its old first entry
HistoryOnly_First(ref) == <<history[1]>>

\* this.history = [e]
HistoryOnly(ref) == <<ref>>

----------------------------------------------------------------------------
(* Construction *)

Construct(cfgs) ==
    /\ config \in cfgs
    /\ maps = << {} >>
    /\ objs = << [id |-> 1, name |-> config.initialState, timestamp |-> 0, data |-> 1],
                 [id |-> 1, name |-> config.initialState, timestamp |-> 0, data |-> 1] >>
    /\ current = 1
    /\ history = <<2>>
    /\ nextId = 1
    /\ clock = 0
    /\ held = {}
    /\ given = {}
    /\ ret = NoRet
    /\ last = [op |-> "constructor", arg |-> config.initialState, ok |-> TRUE,
               err |-> "none", pre |-> [current |-> <<>>, history |-> <<>>], at |-> 0]
    /\ calls = <<>>
    /\ resetUsed = FALSE
    /\ mutations = 0

----------------------------------------------------------------------------
(* Date.now() advances *)

Tick ==
    /\ clock < MaxClock
    /\ clock' = clock + 1
    /\ UNCHANGED <<config, objs, maps, current, history, nextId, held, given, ret,
                   last, calls, resetUsed, mutations>>
    /\ UNCHANGED <<hunterVars, scoreVars, baseVars, extVars>>

----------------------------------------------------------------------------
(* setState(name, data) *)

\* The data argument: omitted (the default, a new {}) or a map of the caller's.
DataArgs ==
    {[kind |-> "default"]} \cup {[kind |-> "given", val |-> v] : v \in SUBSET Keys}

DataRef(d) == Len(maps) + 1

MapsWith(d) == IF d.kind = "given" THEN Append(maps, d.val) ELSE Append(maps, {})

\* assigning the name before validating it
SetStateThrow_Dirty(op, name) ==
    /\ objs' = [objs EXCEPT ![current].name = name]
    /\ last' = [op |-> op, arg |-> name, ok |-> FALSE,
                err |-> "InvalidStateName", pre |-> View, at |-> clock]
    /\ UNCHANGED <<config, maps, current, history, nextId, clock, held, given,
                   ret, calls, resetUsed, mutations>>
    /\ UNCHANGED <<hunterVars, scoreVars, baseVars, modelVars, prepVars, awPc,
                   tensors>>

\* lines 42-44: throw, nothing assigned
SetStateThrow(op, name) ==
    /\ last' = [op |-> op, arg |-> name, ok |-> FALSE,
                err |-> "InvalidStateName", pre |-> View, at |-> clock]
    /\ UNCHANGED <<config, objs, maps, current, history, nextId, clock, held, given,
                   ret, calls, resetUsed, mutations>>
    /\ UNCHANGED <<hunterVars, scoreVars, baseVars, modelVars, prepVars, awPc,
                   tensors>>

\* lines 46-58: newState becomes current, a spread copy is pushed to history
SetStateApply(op, name, d) ==
    LET newState == [id |-> generateId, name |-> name, timestamp |-> clock,
                     data |-> DataRef(d)]
        cur == Len(objs) + 1
        cpy == Len(objs) + 2
    IN  /\ Len(objs) + 2 <= MaxObjs
        /\ maps' = MapsWith(d)
        /\ objs' = objs \o <<newState, newState>>
        /\ nextId' = generateId
        /\ current' = cur
        /\ history' = HistoryPush(history, cpy)
        /\ calls' = Append(calls, name)
        /\ last' = [op |-> op, arg |-> name, ok |-> TRUE, err |-> "none",
                    pre |-> View, at |-> clock]
        /\ IF op = "setState"
           THEN /\ ret' = [kind |-> "state", ref |-> cur]
                /\ given' = given \cup {cur}
           ELSE /\ ret' = [kind |-> "bool", val |-> TRUE]
                /\ UNCHANGED given
        /\ UNCHANGED <<config, clock, held, resetUsed, mutations>>
        /\ UNCHANGED <<hunterVars, scoreVars, baseVars, modelVars, prepVars, awPc,
                       tensors>>

setStateBody(op, name, d) ==
    IF ~StatesIncludes(name)
    THEN SetStateThrow(op, name)
    ELSE SetStateApply(op, name, d)

setState(name, d) == setStateBody("setState", name, d) /\ UNCHANGED trPc

----------------------------------------------------------------------------
(* transition(to, metadata) *)

\* lines 72-74
TransitionThrow(to) ==
    /\ last' = [op |-> "transition", arg |-> to, ok |-> FALSE,
                err |-> "IllegalTransition", pre |-> View, at |-> clock]
    /\ UNCHANGED <<config, objs, maps, current, history, nextId, clock, held, given,
                   ret, calls, resetUsed, mutations>>
    /\ UNCHANGED <<hunterVars, scoreVars, baseVars, modelVars, prepVars, awPc,
                   tensors>>

\* a check against the state the machine was constructed in
TransitionFrom_Initial == config.initialState

\* line 69: this.current.name
TransitionFrom == objs[current].name

\* lines 69-76, up to the await: setState runs to its end before its promise
\* is awaited
transitionBody(to, d) ==
    LET from == TransitionFrom
        allowedTransitions == Allowed(from)
    IN  IF to \notin allowedTransitions
        THEN TransitionThrow(to)
        ELSE setStateBody("transition", to, d)

\* the call with nothing else running before it returns
transition(to, d) == transitionBody(to, d) /\ UNCHANGED trPc

----------------------------------------------------------------------------
(* getState(), getHistory() *)

getState ==
    /\ Len(objs) + 1 <= MaxObjs
    /\ objs' = Append(objs, objs[current])
    /\ ret' = [kind |-> "state", ref |-> Len(objs) + 1]
    /\ held' = held \cup {Len(objs) + 1}
    /\ last' = [op |-> "getState", arg |-> objs[current].name, ok |-> TRUE,
                err |-> "none", pre |-> View, at |-> clock]
    /\ UNCHANGED <<config, maps, current, history, nextId, clock, given, calls,
                   resetUsed, mutations>>
    /\ UNCHANGED <<hunterVars, scoreVars, baseVars, extVars>>

getHistory ==
    /\ ret' = [kind |-> "array", arr |-> history]
    /\ held' = held \cup {history[i] : i \in 1..Len(history)}
    /\ last' = [op |-> "getHistory", arg |-> objs[current].name, ok |-> TRUE,
                err |-> "none", pre |-> View, at |-> clock]
    /\ UNCHANGED <<config, objs, maps, current, history, nextId, clock, given,
                   calls, resetUsed, mutations>>
    /\ UNCHANGED <<hunterVars, scoreVars, baseVars, extVars>>

----------------------------------------------------------------------------
(* reset() *)

reset ==
    /\ last' = [op |-> "reset", arg |-> objs[current].name, ok |-> TRUE,
                err |-> "none", pre |-> View, at |-> clock]
    /\ resetUsed' = TRUE
    /\ ret' = NoRet
    /\ IF Len(history) > 0
       THEN LET initialState == objs[history[1]]
                fresh == [initialState EXCEPT !.timestamp = clock, !.id = generateId]
            IN  /\ Len(objs) + 2 <= MaxObjs
                /\ objs' = objs \o <<fresh, fresh>>
                /\ nextId' = generateId
                /\ current' = Len(objs) + 1
                /\ history' = HistoryOnly(Len(objs) + 2)
       ELSE UNCHANGED <<objs, nextId, current, history>>
    /\ UNCHANGED <<config, maps, clock, held, given, calls, mutations>>
    /\ UNCHANGED <<hunterVars, scoreVars, baseVars, extVars>>

----------------------------------------------------------------------------
(* What a caller can do with the objects it was handed *)

\* how the caller came by the object r
Source(r) == IF r \in held THEN "getter" ELSE "setState"

\* returned.name = n
CallerSetsName(r, n) ==
    /\ objs[r].name # n
    /\ objs' = [objs EXCEPT ![r].name = n]
    /\ last' = [op |-> "callerSetsName", arg |-> n, ok |-> TRUE,
                err |-> "none", pre |-> View, at |-> clock, src |-> Source(r)]
    /\ mutations < MaxMutations
    /\ mutations' = mutations + 1
    /\ UNCHANGED <<config, maps, current, history, nextId, clock, held, given, ret,
                   calls, resetUsed>>
    /\ UNCHANGED <<hunterVars, scoreVars, baseVars, extVars>>

\* returned.data.k = ... / delete returned.data.k
CallerSetsData(r, v) ==
    /\ maps[objs[r].data] # v
    /\ maps' = [maps EXCEPT ![objs[r].data] = v]
    /\ last' = [op |-> "callerSetsData", arg |-> objs[r].name, ok |-> TRUE,
                err |-> "none", pre |-> View, at |-> clock, src |-> Source(r)]
    /\ mutations < MaxMutations
    /\ mutations' = mutations + 1
    /\ UNCHANGED <<config, objs, current, history, nextId, clock, held, given, ret,
                   calls, resetUsed>>
    /\ UNCHANGED <<hunterVars, scoreVars, baseVars, extVars>>

\* returnedArray.pop()
CallerPopsArray ==
    /\ ret.kind = "array"
    /\ Len(ret.arr) > 0
    /\ ret' = [ret EXCEPT !.arr = SubSeq(ret.arr, 1, Len(ret.arr) - 1)]
    /\ last' = [op |-> "callerPopsArray", arg |-> objs[current].name, ok |-> TRUE,
                err |-> "none", pre |-> View, at |-> clock, src |-> "getter"]
    /\ mutations < MaxMutations
    /\ mutations' = mutations + 1
    /\ UNCHANGED <<config, objs, maps, current, history, nextId, clock, held, given,
                   calls, resetUsed>>
    /\ UNCHANGED <<hunterVars, scoreVars, baseVars, extVars>>

----------------------------------------------------------------------------
(* Numbers.  A JavaScript number x is held as the integer Unit * x; the     *)
(* inputs are chosen so that every product and quotient below is exact.    *)

Unit == 1000

Num(x) == x * Unit

Min(a, b) == IF a < b THEN a ELSE b

----------------------------------------------------------------------------
(* Match rules and page contents.  A rule is the text "/source/flags" (or   *)
(* text not of that form); a source is an alternation of literals, the      *)
(* empty source, or a source RegExp rejects.  A content is known by the     *)
(* literals it contains, compared exactly (cs) and ignoring case (ci).      *)

Rule(src, fl) == [slashed |-> TRUE, source |-> src, flags |-> fl]

Alts(ws) == [kind |-> "alts", alts |-> ws]

PredefinedPatterns ==
    << [type |-> "CAPTCHA", severity |-> "high",
        regex |-> Rule(Alts({"captcha", "recaptcha", "challenge", "verification"}), <<"i">>)],
       [type |-> "HONEYPOT", severity |-> "medium",
        regex |-> Rule(Alts({"honeypot", "trap", "decoy", "fake"}), <<"i">>)],
       [type |-> "PHISHING", severity |-> "high",
        regex |-> Rule(Alts({"phishing", "spoof", "clone", "fake_login"}), <<"i">>)],
       [type |-> "FAKE_ELEMENT", severity |-> "medium",
        regex |-> Rule(Alts({"hidden", "invisible", "opacity-0", "pointer-events-none"}),
                       <<"i">>)] >>

\* rules a caller may register with addPattern
CustomPatterns ==
    { [type |-> "TRACKER", severity |-> "low",           \* "/trap/g"
       regex |-> Rule(Alts({"trap"}), <<"g">>)],
      [type |-> "BROKEN", severity |-> "high",           \* "/(/i"
       regex |-> Rule([kind |-> "invalid"], <<"i">>)],
      [type |-> "ANY", severity |-> "low",               \* "//"
       regex |-> Rule([kind |-> "empty"], <<>>)],
      [type |-> "DOTALL", severity |-> "medium",         \* "/hidden/s"
       regex |-> Rule(Alts({"hidden"}), <<"s">>)],
      [type |-> "BARE", severity |-> "medium",           \* "hidden"
       regex |-> [slashed |-> FALSE, source |-> Alts({"hidden"}), flags |-> <<>>]] }

\* <div id="recaptcha">reCAPTCHA Challenge</div>
PageRecaptcha ==
    [ci |-> {"captcha", "recaptcha", "challenge"}, cs |-> {"captcha", "recaptcha"}]

\* <form><input type="hidden"></form>
PageHidden == [ci |-> {"hidden"}, cs |-> {"hidden"}]

\* <a class="opacity-0" href="/fake_login">Trap</a>
PageFakeLogin ==
    [ci |-> {"fake", "fake_login", "opacity-0", "trap"},
     cs |-> {"fake", "fake_login", "opacity-0"}]

\* <p>captcha trap spoof hidden</p>
PageEverything ==
    [ci |-> {"captcha", "trap", "spoof", "hidden"},
     cs |-> {"captcha", "trap", "spoof", "hidden"}]

\* <p>hello</p>
PagePlain == [ci |-> {}, cs |-> {}]

Contents == {PageRecaptcha, PageHidden, PageFakeLogin, PageEverything, PagePlain}

FlagSet(fl) == {fl[i] : i \in 1..Len(fl)}

\* regexStr.match(/^\/(.+)\/([gimuy]*)$/)
ParseML(regex) ==
    /\ regex.slashed
    /\ regex.source.kind # "empty"
    /\ FlagSet(regex.flags) \subseteq {"g", "i", "m", "u", "y"}

\* new RegExp(source, flags) does not throw
Compiles(regex) ==
    /\ regex.source.kind # "invalid"
    /\ Cardinality(FlagSet(regex.flags)) = Len(regex.flags)
    /\ FlagSet(regex.flags) \subseteq {"d", "g", "i", "m", "s", "u", "y"}

\* regex.test(page_content), on a RegExp made for this one test
Test(regex, content) ==
    \/ regex.source.kind = "empty"
    \/ /\ regex.source.kind = "alts"
       /\ regex.source.alts \cap (IF "i" \in FlagSet(regex.flags)
                                  THEN content.ci ELSE content.cs) # {}

\* one turn of the loop of MLDeceptionHunter.analyze: the pattern is pushed
MLMatches(pattern, content) ==
    /\ ParseML(pattern.regex)
    /\ Compiles(pattern.regex)
    /\ Test(pattern.regex, content)

\* MLDeceptionHunter.analyze(page_content)
HunterAnalyze(content) == SelectSeq(patterns, LAMBDA pt : MLMatches(pt, content))

RegexWeight(severity) ==
    IF severity = "high" THEN 30
    ELSE IF severity = "medium" THEN 20
    ELSE IF severity = "low" THEN 10 ELSE 0

RECURSIVE SumWeights(_)
SumWeights(matched) ==
    IF matched = <<>> THEN 0
    ELSE RegexWeight(Head(matched).severity) + SumWeights(Tail(matched))

\* the sum returned without the cap
analyzeRegex_Uncapped(content) == Num(SumWeights(HunterAnalyze(content)))

\* MLDeceptionHunter.analyzeRegex(page_content)
analyzeRegex(content) ==
    LET matched == HunterAnalyze(content)
    IN  IF Len(matched) = 0 THEN Num(0) ELSE Num(Min(100, SumWeights(matched)))

----------------------------------------------------------------------------
(* EnsembleModel *)

\* the two weights exchanged
calculateHybridScore_Swapped(regexScore, mlScore) ==
    ((regexScore * 60) \div 100) + ((mlScore * 40) \div 100)

\* the percent reading of the second argument
calculateHybridScore_Percent(regexScore, mlScore) ==
    ((regexScore * 40) \div 100) + ((mlScore * 100 * 60) \div 100)

\* calculateHybridScore(regexScore, mlScore)
calculateHybridScore(regexScore, mlScore) ==
    ((regexScore * 40) \div 100) + ((mlScore * 60) \div 100)

\* thresholds that take the boundary into the lower bucket
getVerdict_Inclusive(score) ==
    IF score <= 200 THEN "SAFE"
    ELSE IF score <= 400 THEN "LOW_RISK"
    ELSE IF score <= 700 THEN "MEDIUM"
    ELSE "HIGH_THREAT"

\* getVerdict(score)
getVerdict(score) ==
    IF score < 200 THEN "SAFE"
    ELSE IF score < 400 THEN "LOW_RISK"
    ELSE IF score < 700 THEN "MEDIUM"
    ELSE "HIGH_THREAT"

----------------------------------------------------------------------------
(* MLDeceptionHunter *)

InitCalls == 1..MaxInitCalls

NoResult == [returned |-> FALSE]

\* probabilities a learned model may answer
Probs == {Num(0), Unit \div 2, Num(1)}

\* the two ends of that range
ProbEnds == {Num(0), Num(1)}

\* constructor
HunterNew ==
    /\ patterns = PredefinedPatterns
    /\ mlEnabled = FALSE
    /\ cnnModel = 0
    /\ lstmModel = 0
    /\ ensemble = 0
    /\ models = <<>>
    /\ initPc = [p \in InitCalls |-> "idle"]
    /\ initMade = [p \in InitCalls |-> 0]
    /\ phase = "unconfigured"
    /\ hLast = [op |-> "constructor"]

\* models the initializeML calls in flight have still to create
StillToCreate ==
    LET need(p) == IF initPc[p] = "cnn" THEN 2 ELSE IF initPc[p] = "lstm" THEN 1 ELSE 0
        RECURSIVE sum(_)
        sum(ps) == IF ps = {} THEN 0
                   ELSE LET p == CHOOSE q \in ps : TRUE IN need(p) + sum(ps \ {p})
    IN  sum(InitCalls)

Created(kind) == Append(models, [kind |-> kind, live |-> TRUE])

\* initializeML(), up to the first await: line 60, and createCNNModel called
initStart(p) ==
    /\ initPc[p] = "idle"
    /\ IF mlEnabled
       THEN /\ phase' = "ready"
            /\ UNCHANGED <<models, initPc, initMade>>
       ELSE /\ Len(models) + StillToCreate + 3 <= MaxModels
            /\ models' = Created("cnn")
            /\ initMade' = [initMade EXCEPT ![p] = Len(models) + 1]
            /\ initPc' = [initPc EXCEPT ![p] = "cnn"]
            /\ UNCHANGED phase
    /\ UNCHANGED <<patterns, mlEnabled, cnnModel, lstmModel, ensemble, hLast>>
    /\ UNCHANGED <<smVars, scoreVars, baseVars, extVars>>

\* line 62 assigns, line 63 calls createLSTMModel
initCnn(p) ==
    /\ initPc[p] = "cnn"
    /\ cnnModel' = initMade[p]
    /\ models' = Created("lstm")
    /\ initMade' = [initMade EXCEPT ![p] = Len(models) + 1]
    /\ initPc' = [initPc EXCEPT ![p] = "lstm"]
    /\ UNCHANGED <<patterns, mlEnabled, lstmModel, ensemble, phase, hLast>>
    /\ UNCHANGED <<smVars, scoreVars, baseVars, extVars>>

\* line 63 assigns, lines 64-67 call createEnsembleModel
initLstm(p) ==
    /\ initPc[p] = "lstm"
    /\ lstmModel' = initMade[p]
    /\ models' = Created("ensemble")
    /\ initMade' = [initMade EXCEPT ![p] = Len(models) + 1]
    /\ initPc' = [initPc EXCEPT ![p] = "ensemble"]
    /\ UNCHANGED <<patterns, mlEnabled, cnnModel, ensemble, phase, hLast>>
    /\ UNCHANGED <<smVars, scoreVars, baseVars, extVars>>

\* line 64 assigns, line 69 sets mlEnabled
initEnsemble(p) ==
    /\ initPc[p] = "ensemble"
    /\ ensemble' = initMade[p]
    /\ mlEnabled' = TRUE
    /\ phase' = "ready"
    /\ initMade' = [initMade EXCEPT ![p] = 0]
    /\ initPc' = [initPc EXCEPT ![p] = "idle"]
    /\ UNCHANGED <<patterns, cnnModel, lstmModel, models, hLast>>
    /\ UNCHANGED <<smVars, scoreVars, baseVars, extVars>>

\* dispose()
dispose ==
    LET mine == {cnnModel, lstmModel, ensemble} \ {0}
    IN  /\ models' = [r \in DOMAIN models |->
                        IF r \in mine THEN [models[r] EXCEPT !.live = FALSE]
                        ELSE models[r]]
        /\ mlEnabled' = FALSE
        /\ phase' = "unconfigured"
        /\ hLast' = [op |-> "dispose"]
        /\ UNCHANGED <<patterns, cnnModel, lstmModel, ensemble, initPc, initMade>>
        /\ UNCHANGED <<smVars, scoreVars, baseVars, extVars>>

\* addPattern(pattern)
addPattern(pt) ==
    /\ Len(patterns) < MaxPatterns
    /\ patterns' = Append(patterns, pt)
    /\ hLast' = [op |-> "addPattern"]
    /\ UNCHANGED <<mlEnabled, cnnModel, lstmModel, ensemble, models, initPc,
                   initMade, phase>>
    /\ UNCHANGED <<smVars, scoreVars, baseVars, extVars>>

\* analyze(page_content)
analyze(content) ==
    \E matched \in {HunterAnalyze(content)} :
        /\ hLast' = [content |-> content, err |-> "none", matched |-> matched,
                     op |-> "analyze", phase |-> phase, pre |-> patterns]
        /\ UNCHANGED <<patterns, mlEnabled, cnnModel, lstmModel, ensemble, models,
                       initPc, initMade, phase>>
        /\ UNCHANGED <<smVars, scoreVars, baseVars, extVars>>

\* the guard of analyzeWithML reading the model fields instead of the flag
MLReady_ByFields == cnnModel # 0 /\ lstmModel # 0 /\ ensemble # 0

\* line 95: this.mlEnabled
MLReady == mlEnabled

\* fusing through calculateHybridScore, which takes the probability as given
FinalScore_Unscaled(regexScore, mlScore) == calculateHybridScore(regexScore, mlScore)

\* line 120: (regexScore * 0.40) + (mlScore * 100 * 0.60)
FinalScore(regexScore, mlScore) ==
    ((regexScore * 40) \div 100) + ((mlScore * 100 * 60) \div 100)

\* the final score passed on undivided
Confidence_Raw(finalScore) == finalScore

\* line 121: Math.min(1.0, finalScore / 100)
Confidence(finalScore) == Min(Num(1), finalScore \div 100)

\* lines 102-133 of analyzeWithML, given the regex score and the matches of
\* lines 99-100 and the answers c, l, m of the three models
Analysis(regexScore, matchedPatterns, hasHistory, c, l, m) ==
    LET haveAll == cnnModel # 0 /\ lstmModel # 0 /\ ensemble # 0
        cnnThrows == haveAll /\ ~models[cnnModel].live
        lstmThrows == haveAll /\ hasHistory /\ ~models[lstmModel].live
        ensThrows == haveAll /\ ~models[ensemble].live
        cnnScore == IF haveAll THEN c ELSE 0
        lstmScore == IF haveAll /\ hasHistory THEN l ELSE 0
        mlScore == IF haveAll THEN m ELSE 0
        finalScore == FinalScore(regexScore, mlScore)
        confidence == Confidence(finalScore)
    IN  IF cnnThrows \/ lstmThrows \/ ensThrows
        THEN [err |-> "ModelDisposed", result |-> NoResult]
        ELSE IF ensemble = 0
        THEN [err |-> "TypeError", result |-> NoResult]
        ELSE [err |-> "none",
              result |-> [returned |-> TRUE,
                          regex_score |-> regexScore,
                          ml_score |-> mlScore * 100,
                          final_score |-> finalScore,
                          confidence |-> confidence,
                          verdict |-> getVerdict(confidence),
                          matched_patterns |-> matchedPatterns,
                          cnn_score |-> cnnScore * 100,
                          lstm_score |-> lstmScore * 100]]

\* analyzeWithML(page_content, interaction_history); the content and sequence
\* models answer from `scores`, the ensemble from `answers`
analyzeWithML(content, hasHistory, scores, answers) ==
    /\ IF ~MLReady
       THEN hLast' = [op |-> "analyzeWithML", content |-> content, phase |-> phase,
                      err |-> "ModelNotInitialized", result |-> NoResult]
       ELSE \E regexScore \in {analyzeRegex(content)} :
            \E matchedPatterns \in {HunterAnalyze(content)} :
            \E c \in scores : \E l \in (IF hasHistory THEN scores ELSE {0}) :
            \E m \in answers :
                LET a == Analysis(regexScore, matchedPatterns, hasHistory, c, l, m)
                IN  hLast' = [op |-> "analyzeWithML", content |-> content,
                              phase |-> phase, err |-> a.err, result |-> a.result]
    /\ UNCHANGED <<patterns, mlEnabled, cnnModel, lstmModel, ensemble, models,
                   initPc, initMade, phase>>
    /\ UNCHANGED <<smVars, scoreVars, baseVars, extVars>>

----------------------------------------------------------------------------
(* DeceptionHunter *)

\* pattern.regex.match(/^\/(.*)\/([gimsuy]*)$/)
ParseBase(regex) ==
    /\ regex.slashed
    /\ FlagSet(regex.flags) \subseteq {"g", "i", "m", "s", "u", "y"}

\* a match put in front of the earlier ones
MatchedPush_Front(matched, pattern) == <<pattern>> \o matched

\* matched.push(pattern)
MatchedPush(matched, pattern) == Append(matched, pattern)

\* the loop of DeceptionHunter.analyze over the patterns still to test;
\* new RegExp is not guarded, so its SyntaxError ends the call
RECURSIVE DeceptionScan(_, _, _)
DeceptionScan(rest, content, matched) ==
    IF rest = <<>> THEN [err |-> "none", matched |-> matched]
    ELSE LET pattern == Head(rest)
         IN  IF ~ParseBase(pattern.regex)
             THEN DeceptionScan(Tail(rest), content, matched)
             ELSE IF ~Compiles(pattern.regex)
             THEN [err |-> "SyntaxError", matched |-> <<>>]
             ELSE IF Test(pattern.regex, content)
             THEN DeceptionScan(Tail(rest), content, MatchedPush(matched, pattern))
             ELSE DeceptionScan(Tail(rest), content, matched)

\* DeceptionHunter.analyze(page_content)
DeceptionAnalyze(content) == DeceptionScan(bPatterns, content, <<>>)

\* Snapshots: key-value maps in insertion order.  A value is a string or
\* undefined.
SnapKeys == {"url", "dom"}

SnapValues == {"a", "b", "undefined"}

Entry(k, v) == [key |-> k, value |-> v]

Snapshots ==
    {<<>>}
    \cup {<<Entry(k, v)>> : k \in SnapKeys, v \in SnapValues}
    \cup {<<Entry(k[1], v[1]), Entry(k[2], v[2])>> :
            k \in {q \in SnapKeys \X SnapKeys : q[1] # q[2]},
            v \in SnapValues \X SnapValues}

\* snapshot[key]
Field(snapshot, key) ==
    IF \E i \in DOMAIN snapshot : snapshot[i].key = key
    THEN snapshot[CHOOSE i \in DOMAIN snapshot : snapshot[i].key = key].value
    ELSE "undefined"

\* JSON.stringify(snapshot): the entries in insertion order, those whose value
\* is undefined left out
JSONstringify(snapshot) == SelectSeq(snapshot, LAMBDA e : e.value # "undefined")

\* verifyClick(before, after)
verifyClick(before, after) ==
    LET urlChanged == Field(before, "url") # Field(after, "url")
        domChanged == JSONstringify(before) # JSONstringify(after) /\ ~urlChanged
        verified == urlChanged \/ domChanged
    IN  [after_state |-> after, before_state |-> before,
         confidence |-> (IF verified THEN Num(1) ELSE Num(0)),
         verified |-> verified]

\* the weights of the additive rule used as penalties
Penalty_Weights(severity) == RegexWeight(severity)

\* the switch of getConfidence
Penalty(severity) ==
    IF severity = "low" THEN 10
    ELSE IF severity = "medium" THEN 30
    ELSE IF severity = "high" THEN 50 ELSE 0

RECURSIVE SumPenalties(_)
SumPenalties(matched) ==
    IF matched = <<>> THEN 0
    ELSE Penalty(Head(matched).severity) + SumPenalties(Tail(matched))

Max(a, b) == IF a > b THEN a ELSE b

\* getConfidence(matchedPatterns, clickVerification)
getConfidence(matchedPatterns, clickVerification) ==
    IF ~clickVerification.verified THEN Num(0)
    ELSE Num(Max(0, 100 - SumPenalties(matchedPatterns)))

\* verified as soon as the confidence reaches 50
Overall_AtLeast(verified, confidence) == verified /\ confidence >= Num(50)

\* line 151: clickVerification.verified && confidence > 50
Overall(verified, confidence) == verified /\ confidence > Num(50)

\* constructor
DeceptionNew ==
    /\ bPatterns = PredefinedPatterns
    /\ bLast = [op |-> "constructor"]

\* DeceptionHunter.addPattern(pattern)
dhAddPattern(pt) ==
    /\ Len(bPatterns) < MaxPatterns
    /\ bPatterns' = Append(bPatterns, pt)
    /\ bLast' = [op |-> "addPattern"]
    /\ UNCHANGED <<smVars, hunterVars, scoreVars, extVars>>

\* DeceptionHunter.analyze(page_content)
dhAnalyze(content) ==
    \E a \in {DeceptionAnalyze(content)} :
    LET repeat == bLast.op = "analyze" /\ bLast.content = content /\ bLast.err = "none"
    IN  /\ bLast' = [content |-> content, err |-> a.err, matched |-> a.matched,
                     op |-> "analyze", pre |-> bPatterns,
                     prev |-> (IF repeat THEN bLast.matched ELSE <<>>),
                     repeat |-> repeat]
        /\ UNCHANGED bPatterns
        /\ UNCHANGED <<smVars, hunterVars, scoreVars, extVars>>

NoAnalysis == [returned |-> FALSE]

\* runFullAnalysis(page_content, before, after)
runFullAnalysis(content, before, after) ==
    \E a \in {DeceptionAnalyze(content)} :
    LET matchedPatterns == a.matched
        clickVerification == verifyClick(before, after)
        confidence == getConfidence(matchedPatterns, clickVerification)
        logs == << "start",
                   IF Len(matchedPatterns) > 0 THEN "matched" ELSE "no match",
                   IF clickVerification.verified THEN "click verified"
                   ELSE "click failed",
                   "confidence" >>
    IN  /\ bLast' = [after |-> after, before |-> before, content |-> content,
                     err |-> a.err, op |-> "runFullAnalysis",
                     result |-> IF a.err # "none" THEN NoAnalysis
                                ELSE [confidence |-> confidence,
                                      logs |-> logs,
                                      matched_patterns |->
                                          [i \in 1..Len(matchedPatterns) |->
                                              matchedPatterns[i].type],
                                      returned |-> TRUE,
                                      verified |-> Overall(clickVerification.verified,
                                                           confidence)]]
        /\ UNCHANGED bPatterns
        /\ UNCHANGED <<smVars, hunterVars, scoreVars, extVars>>

\* matched-pattern arrays a caller hands to getConfidence
MatchedPool ==
    {PredefinedPatterns[i] : i \in 1..4}
    \cup {pt \in CustomPatterns : pt.type = "TRACKER"}

MatchedInputs ==
    {<<>>} \cup {<<x>> : x \in MatchedPool}
           \cup {<<x, y>> : x \in MatchedPool, y \in MatchedPool}
           \cup {<<x, y, z>> : x \in MatchedPool, y \in MatchedPool, z \in MatchedPool}

CallVerifyClick(before, after) ==
    /\ bLast' = [after |-> after, before |-> before, op |-> "verifyClick",
                 result |-> verifyClick(before, after)]
    /\ UNCHANGED bPatterns
    /\ UNCHANGED <<smVars, hunterVars, scoreVars, extVars>>

\* getConfidence called with the result of verifyClick(before, after)
CallGetConfidence(matchedPatterns, before, after) ==
    LET clickVerification == verifyClick(before, after)
    IN  /\ bLast' = [click |-> clickVerification, matched |-> matchedPatterns,
                     op |-> "getConfidence",
                     result |-> getConfidence(matchedPatterns, clickVerification)]
        /\ UNCHANGED bPatterns
        /\ UNCHANGED <<smVars, hunterVars, scoreVars, extVars>>

----------------------------------------------------------------------------
(* Calling the scoring functions *)

RegexInputs == {Num(5 * i) : i \in 0..20}            \* 0, 5, ..., 100

ProbInputs == {(Unit \div 20) * i : i \in 0..20}     \* 0, 0.05, ..., 1

\* the second argument as a probability or, as the test gives it, on 0..100
MlInputs == ProbInputs \cup RegexInputs

\* scores handed to getVerdict: the thresholds, their neighbours, the values
\* of the test suite and values outside [0,1]
VerdictInputs ==
    {0 - 100, 0, 150, 199, 200, 201, 300, 399, 400, 401, 550, 699, 700, 701, 850,
     Num(1), 1500}

ScoreIdle ==
    /\ sRegex = 0
    /\ sMl = 0
    /\ sHybrid = [called |-> FALSE]
    /\ sVerdict = <<>>

CallHybrid ==
    /\ ~sHybrid.called
    /\ sHybrid' = [called |-> TRUE, value |-> calculateHybridScore(sRegex, sMl)]
    /\ UNCHANGED <<sRegex, sMl, sVerdict>>
    /\ UNCHANGED <<smVars, hunterVars, baseVars, extVars>>

CallVerdict(score) ==
    /\ sVerdict' = <<[score |-> score, verdict |-> getVerdict(score)]>>
                        \o SubSeq(sVerdict, 1, Min(1, Len(sVerdict)))
    /\ UNCHANGED <<sRegex, sMl, sHybrid>>
    /\ UNCHANGED <<smVars, hunterVars, baseVars, extVars>>

----------------------------------------------------------------------------
(* CNNModel, LSTMModel and EnsembleModel as a caller uses them directly *)

Kinds == {"cnn", "lstm", "ensemble"}

\* new CNNModel(), new LSTMModel(), new EnsembleModel(cnn, lstm): no model
\* yet.  `flag` is isCompiled of CNNModel and isInitialized of EnsembleModel;
\* LSTMModel has no such field.
ModelsNew ==
    /\ inst = [k \in Kinds |-> [model |-> FALSE, flag |-> FALSE]]
    /\ disposed = [k \in Kinds |-> "no"]
    /\ iLast = [op |-> "constructor"]

\* initializeModel() / initialize(): builds and compiles a model, whatever
\* the instance held before
modelInitialize(k) ==
    /\ inst' = [inst EXCEPT ![k] = [model |-> TRUE, flag |-> k # "lstm"]]
    /\ disposed' = [disposed EXCEPT ![k] = IF @ = "no" THEN "no" ELSE "reinitialized"]
    /\ iLast' = [op |-> "initialize", kind |-> k]
    /\ UNCHANGED <<prepVars, flightVars>>
    /\ UNCHANGED <<smVars, hunterVars, scoreVars, baseVars>>

\* the guard of predict: !this.model, and for the ensemble
\* !this.metaLearner || !this.isInitialized
PredictThrows(k) ==
    IF k = "ensemble" THEN ~inst[k].model \/ ~inst[k].flag ELSE ~inst[k].model

\* predict(input), the model answering v
modelPredict(k, v) ==
    /\ iLast' = IF PredictThrows(k)
                THEN [op |-> "predict", kind |-> k, err |-> "NotInitialized",
                      returned |-> FALSE, value |-> 0, disposed |-> disposed[k]]
                ELSE [op |-> "predict", kind |-> k, err |-> "none",
                      returned |-> TRUE, value |-> v, disposed |-> disposed[k]]
    /\ UNCHANGED <<inst, disposed, prepVars, flightVars>>
    /\ UNCHANGED <<smVars, hunterVars, scoreVars, baseVars>>

\* dispose(): releases the model and forgets it; the flag is left as it is
modelDispose(k) ==
    /\ inst' = [inst EXCEPT ![k].model = FALSE]
    /\ disposed' = [disposed EXCEPT ![k] = "yes"]
    /\ iLast' = [op |-> "dispose", kind |-> k]
    /\ UNCHANGED <<prepVars, flightVars>>
    /\ UNCHANGED <<smVars, hunterVars, scoreVars, baseVars>>

----------------------------------------------------------------------------
(* MLPreprocessor: the vocabulary *)

\* lines 28-35
commonTokens ==
    << "captcha", "recaptcha", "challenge", "verification", "verify",
       "honeypot", "trap", "decoy", "fake", "hidden", "invisible",
       "phishing", "spoof", "clone", "login", "submit", "click",
       "button", "form", "input", "password", "username", "email",
       "suspicious", "warning", "danger", "alert", "error",
       "script", "redirect", "popup", "overlay", "modal" >>

\* tokens a caller adds
NewTokens == {"zone", "Zone", "captcha", "nonce"}

\* String.prototype.toLowerCase on the tokens above
toLowerCase(token) == IF token = "Zone" THEN "zone" ELSE token

\* Map.prototype.set
MapSet(map, key, value) ==
    [k \in DOMAIN map \cup {key} |-> IF k = key THEN value ELSE map[k]]

\* Map.prototype.delete
MapDelete(map, key) == [k \in DOMAIN map \ {key} |-> map[k]]

\* Map.prototype.size
MapSize(map) == Cardinality(DOMAIN map)

\* lines 37-39: forEach((token, index) => vocab.set(token.toLowerCase(), index + 1))
RECURSIVE SeedVocab(_, _)
SeedVocab(map, index) ==
    IF index > Len(commonTokens) THEN map
    ELSE SeedVocab(MapSet(map, toLowerCase(commonTokens[index]), index), index + 1)

\* the vocabulary every new MLPreprocessor starts with (index counts from 1
\* here, so commonTokens[index] gets the value index)
DefaultVocab == SeedVocab(<<>>, 1)

\* constructor(vocabSize, sequenceLength)
PreprocessorNew(sizes, lengths) ==
    /\ vocabSize \in sizes
    /\ sequenceLength \in lengths
    /\ vocab = DefaultVocab
    /\ vCopy = [ref |-> "none", map |-> <<>>]
    /\ pLast = [op |-> "constructor"]

\* lines 147-152, the tokens of the list one after the other
RECURSIVE AddTokens(_, _)
AddTokens(map, tokens) ==
    IF tokens = <<>> THEN map
    ELSE LET token == Head(tokens)
             idx == MapSize(map) + 1
         IN  IF idx <= vocabSize /\ toLowerCase(token) \notin DOMAIN map
             THEN AddTokens(MapSet(map, toLowerCase(token), idx), Tail(tokens))
             ELSE AddTokens(map, Tail(tokens))

\* addTokens(tokens)
addTokens(tokens) ==
    /\ vocab' = AddTokens(vocab, tokens)
    /\ pLast' = [op |-> "addTokens", pre |-> vocab]
    /\ UNCHANGED <<vocabSize, sequenceLength, vCopy>>
    /\ UNCHANGED <<modelVars, flightVars>>
    /\ UNCHANGED <<smVars, hunterVars, scoreVars, baseVars>>

\* handing out the map itself
GetVocab_Same == [ref |-> "same", map |-> vocab]

\* line 159: new Map(this.vocab)
GetVocab == [ref |-> "copy", map |-> vocab]

\* getVocab()
getVocab ==
    /\ vCopy' = GetVocab
    /\ pLast' = [op |-> "getVocab", pre |-> vocab]
    /\ UNCHANGED <<vocabSize, sequenceLength, vocab>>
    /\ UNCHANGED <<modelVars, flightVars>>
    /\ UNCHANGED <<smVars, hunterVars, scoreVars, baseVars>>

\* a write of the caller to the map it was handed reaches this.vocab only
\* if it is the same Map object
CallerWrites(map) ==
    /\ vCopy.ref # "none"
    /\ map # vCopy.map
    /\ vCopy' = [vCopy EXCEPT !.map = map]
    /\ vocab' = IF vCopy.ref = "same" THEN map ELSE vocab
    /\ pLast' = [op |-> "callerWrites", pre |-> vocab]
    /\ UNCHANGED <<vocabSize, sequenceLength>>
    /\ UNCHANGED <<modelVars, flightVars>>
    /\ UNCHANGED <<smVars, hunterVars, scoreVars, baseVars>>

\* returned.set("captcha", 0), returned.set("mine", 1)
CallerSetsVocab(token, index) == CallerWrites(MapSet(vCopy.map, token, index))

\* returned.delete("captcha")
CallerDeletesVocab(token) == CallerWrites(MapDelete(vCopy.map, token))

----------------------------------------------------------------------------
(* MLPreprocessor: interaction sequences *)

\* what a float32 tensor holds for a value that is not a number
NaN == 0 - 1

\* a field the record does not have
Undefined == 0 - 2

\* lines 132-139: the own properties of actionMap
actionMap ==
    [a \in {"CLICK", "HOVER", "SCROLL", "INPUT", "SUBMIT", "UNKNOWN"} |->
        IF a \in {"CLICK", "SUBMIT"} THEN Num(1)
        ELSE IF a = "HOVER" THEN Unit \div 2
        ELSE IF a = "SCROLL" THEN (3 * Unit) \div 10
        ELSE IF a = "INPUT" THEN (7 * Unit) \div 10
        ELSE Unit \div 10]

\* actionMap is an object literal: a lookup that finds no own property goes
\* on to Object.prototype, whose properties are functions
ObjectPrototype == {"constructor", "toString", "valueOf", "hasOwnProperty"}

\* a table that answers 0.1 for every action it does not list
actionToFeature_OwnOnly(action) ==
    IF action \in DOMAIN actionMap THEN actionMap[action] ELSE Unit \div 10

\* line 140: actionMap[action] || 0.1
actionToFeature(action) ==
    IF action \in DOMAIN actionMap THEN actionMap[action]
    ELSE IF action \in ObjectPrototype THEN NaN
    ELSE Unit \div 10

\* v || 0
OrZero(v) == IF v = Undefined THEN 0 ELSE v

\* lines 81-86; x and y are in pixels, so x / 1000 is x thousandths
Features(interaction) ==
    << actionToFeature(interaction.action),
       OrZero(interaction.x),
       OrZero(interaction.y),
       OrZero(interaction.confidence) >>

\* Array.prototype.slice(0, n)
Slice(s, n) == SubSeq(s, 1, Min(n, Len(s)))

\* lines 91-93
RECURSIVE Pad(_)
Pad(features) ==
    IF Len(features) < sequenceLength THEN Pad(Append(features, <<0, 0, 0, 0>>))
    ELSE features

\* lines 80-95
SequenceFromInteractions(interactions) ==
    Pad([i \in 1..Len(Slice(interactions, sequenceLength)) |->
            Features(interactions[i])])

\* interaction records: every listed action, two unlisted ones, with and
\* without coordinates and metadata.confidence
Interaction(action, x, y, confidence) ==
    [action |-> action, x |-> x, y |-> y, confidence |-> confidence]

Interactions ==
    { Interaction("CLICK", 100, 200, Undefined),
      Interaction("SUBMIT", Undefined, Undefined, 900),
      Interaction("INPUT", 120, 210, Undefined),
      Interaction("HOVER", 0, 0, 0),
      Interaction("SCROLL", Undefined, 50, Undefined),
      Interaction("UNKNOWN", 100, 100, Undefined),
      Interaction("DRAG", 100, 100, Undefined),
      Interaction("constructor", 100, 100, Undefined) }

RECURSIVE SeqsUpTo(_, _)
SeqsUpTo(S, n) ==
    IF n = 0 THEN {<<>>}
    ELSE LET shorter == SeqsUpTo(S, n - 1)
         IN  shorter \cup {Append(s, e) : s \in {t \in shorter : Len(t) = n - 1}, e \in S}

\* sequenceFromInteractions(interactions)
sequenceFromInteractions(interactions) ==
    /\ pLast' = [op |-> "sequenceFromInteractions", interactions |-> interactions,
                 rows |-> SequenceFromInteractions(interactions)]
    /\ UNCHANGED <<vocabSize, sequenceLength, vocab, vCopy>>
    /\ UNCHANGED <<modelVars, flightVars>>
    /\ UNCHANGED <<smVars, hunterVars, scoreVars, baseVars>>

----------------------------------------------------------------------------
(* transition() calls in flight.  transition is an async function: it runs *)
(* from line 69 to the await of line 76 in one turn, setState included,     *)
(* and resumes at line 77 in a later turn.                                  *)

TransCalls == 1..MaxTransCalls

NoCall == [pc |-> "idle", outcome |-> "none", to |-> "none", before |-> 0, after |-> 0]

\* how a call that has just run lines 69-76 stands
Called(to, before) ==
    IF to \notin Allowed(TransitionFrom)
    THEN [pc |-> "idle", outcome |-> "IllegalTransition", to |-> to,
          before |-> before, after |-> Len(history')]
    ELSE IF ~StatesIncludes(to)
    THEN [pc |-> "idle", outcome |-> "InvalidStateName", to |-> to,
          before |-> before, after |-> Len(history')]
    ELSE [pc |-> "awaiting", outcome |-> "pending", to |-> to,
          before |-> before, after |-> Len(history')]

\* lines 69-76 of the call p
transitionCall(p, to, d) ==
    /\ trPc[p].pc = "idle"
    /\ transitionBody(to, d)
    /\ trPc' = [trPc EXCEPT ![p] = Called(to, Len(history))]

\* line 77
transitionReturn(p) ==
    /\ trPc[p].pc = "awaiting"
    /\ trPc' = [trPc EXCEPT ![p] = [@ EXCEPT !.pc = "idle", !.outcome = "true"]]
    /\ UNCHANGED <<awPc, tensors, modelVars, prepVars>>
    /\ UNCHANGED <<smVars, hunterVars, scoreVars, baseVars>>

----------------------------------------------------------------------------
(* analyzeWithML() calls in flight, and the tensors they create.  The call  *)
(* runs to each await in one turn: a predict call throws or computes its    *)
(* answer at once, and the caller resumes with it in a later turn.          *)

AwCalls == 1..MaxAnalyses

NoAnalysisCall ==
    [pc |-> "idle", done |-> FALSE, err |-> "none", content |-> PagePlain,
     hasHistory |-> FALSE, regexScore |-> 0, matched |-> <<>>, cnnScore |-> 0,
     lstmScore |-> 0, mlScore |-> 0, passed |-> 0, holds |-> 0]

FlightNew ==
    /\ trPc = [p \in TransCalls |-> NoCall]
    /\ awPc = [q \in AwCalls |-> NoAnalysisCall]
    /\ tensors = <<>>

\* tf.tensor1d / tf.tensor2d in preprocessContent and sequenceFromInteractions
TensorMade(kind, q) == Append(tensors, [kind |-> kind, live |-> TRUE, by |-> q])

\* tensor.dispose()
TensorDisposed(ts, t) == [ts EXCEPT ![t].live = FALSE]

\* the call q ends by throwing err
AwFails(q, call, err) ==
    /\ awPc' = [awPc EXCEPT ![q] = [call EXCEPT !.pc = "idle", !.done = TRUE,
                                                !.err = err]]
    /\ hLast' = [op |-> "analyzeWithML", content |-> call.content, phase |-> phase,
                 err |-> err, result |-> NoResult]

\* line 117: this.ensemble.predict(cnnScore, lstmScore, regexScore), the
\* ensemble answering m
AwCallsEnsemble(q, call, lstmScore, m) ==
    IF ~models[ensemble].live
    THEN AwFails(q, [call EXCEPT !.passed = lstmScore], "ModelDisposed")
    ELSE /\ awPc' = [awPc EXCEPT ![q] = [call EXCEPT !.pc = "ensemble",
                                                     !.passed = lstmScore,
                                                     !.mlScore = m]]
         /\ UNCHANGED hLast

\* lines 95-108: the guard, the regex score, the content vector, and the call
\* of cnnModel.predict, the model answering c
awStart(q, content, hasHistory, c) ==
    LET call == [NoAnalysisCall EXCEPT !.content = content, !.hasHistory = hasHistory]
    IN  /\ awPc[q].pc = "idle"
        /\ IF ~MLReady
           THEN /\ AwFails(q, call, "ModelNotInitialized")
                /\ UNCHANGED tensors
           ELSE \E regexScore \in {analyzeRegex(content)} :
                \E matchedPatterns \in {HunterAnalyze(content)} :
                LET scored == [call EXCEPT !.regexScore = regexScore,
                                           !.matched = matchedPatterns]
                IN  IF cnnModel # 0 /\ lstmModel # 0 /\ ensemble # 0
                    THEN /\ Len(tensors) < MaxTensors
                         /\ tensors' = TensorMade("content", q)
                         /\ IF ~models[cnnModel].live
                            THEN AwFails(q, [scored EXCEPT !.holds = Len(tensors) + 1],
                                         "ModelDisposed")
                            ELSE /\ awPc' = [awPc EXCEPT ![q] =
                                                [scored EXCEPT !.pc = "cnn",
                                                               !.cnnScore = c,
                                                               !.holds = Len(tensors) + 1]]
                                 /\ UNCHANGED hLast
                    ELSE LET a == Analysis(regexScore, matchedPatterns, hasHistory, 0, 0, 0)
                         IN  /\ awPc' = [awPc EXCEPT ![q] =
                                            [scored EXCEPT !.done = TRUE, !.err = a.err]]
                             /\ hLast' = [op |-> "analyzeWithML", content |-> content,
                                          phase |-> phase, err |-> a.err,
                                          result |-> a.result]
                             /\ UNCHANGED tensors
        /\ UNCHANGED <<patterns, mlEnabled, cnnModel, lstmModel, ensemble, models,
                       initPc, initMade, phase>>
        /\ UNCHANGED <<smVars, scoreVars, baseVars, modelVars, prepVars, trPc>>

\* lines 109-117: the content vector is disposed; with a history the sequence
\* tensor is made and lstmModel.predict called, the model answering l;
\* without one the ensemble is called
awCnn(q, l, m) ==
    LET call == awPc[q]
        freed == TensorDisposed(tensors, call.holds)
    IN  /\ call.pc = "cnn"
        /\ IF call.hasHistory
           THEN /\ Len(tensors) < MaxTensors
                /\ tensors' = Append(freed, [kind |-> "sequence", live |-> TRUE, by |-> q])
                /\ IF ~models[lstmModel].live
                   THEN AwFails(q, [call EXCEPT !.holds = Len(tensors) + 1],
                                "ModelDisposed")
                   ELSE /\ awPc' = [awPc EXCEPT ![q] =
                                       [call EXCEPT !.pc = "lstm", !.lstmScore = l,
                                                    !.holds = Len(tensors) + 1]]
                        /\ UNCHANGED hLast
           ELSE /\ tensors' = freed
                /\ AwCallsEnsemble(q, [call EXCEPT !.holds = 0], 0, m)
        /\ UNCHANGED <<patterns, mlEnabled, cnnModel, lstmModel, ensemble, models,
                       initPc, initMade, phase>>
        /\ UNCHANGED <<smVars, scoreVars, baseVars, modelVars, prepVars, trPc>>

\* lines 114-117: the sequence tensor is disposed and the ensemble called
awLstm(q, m) ==
    LET call == awPc[q]
    IN  /\ call.pc = "lstm"
        /\ tensors' = TensorDisposed(tensors, call.holds)
        /\ AwCallsEnsemble(q, [call EXCEPT !.holds = 0], call.lstmScore, m)
        /\ UNCHANGED <<patterns, mlEnabled, cnnModel, lstmModel, ensemble, models,
                       initPc, initMade, phase>>
        /\ UNCHANGED <<smVars, scoreVars, baseVars, modelVars, prepVars, trPc>>

\* lines 120-133
awEnsemble(q) ==
    LET call == awPc[q]
        finalScore == FinalScore(call.regexScore, call.mlScore)
        confidence == Confidence(finalScore)
    IN  /\ call.pc = "ensemble"
        /\ awPc' = [awPc EXCEPT ![q] = [call EXCEPT !.pc = "idle", !.done = TRUE]]
        /\ hLast' = [op |-> "analyzeWithML", content |-> call.content,
                     phase |-> phase, err |-> "none",
                     result |-> [returned |-> TRUE,
                                 regex_score |-> call.regexScore,
                                 ml_score |-> call.mlScore * 100,
                                 final_score |-> finalScore,
                                 confidence |-> confidence,
                                 verdict |-> getVerdict(confidence),
                                 matched_patterns |-> call.matched,
                                 cnn_score |-> call.cnnScore * 100,
                                 lstm_score |-> call.lstmScore * 100]]
        /\ UNCHANGED tensors
        /\ UNCHANGED <<patterns, mlEnabled, cnnModel, lstmModel, ensemble, models,
                       initPc, initMade, phase>>
        /\ UNCHANGED <<smVars, scoreVars, baseVars, modelVars, prepVars, trPc>>

ExtNew == ModelsNew /\ PreprocessorNew({1000}, {100}) /\ FlightNew

----------------------------------------------------------------------------
(* Specifications *)

ApiNext ==
    \/ Tick
    \/ \E n \in Names : \E d \in DataArgs : setState(n, d)
    \/ \E n \in Names : \E d \in DataArgs : transition(n, d)
    \/ getState
    \/ getHistory
    \/ reset

CallerNext ==
    \/ \E r \in held \cup given : \E n \in Names : CallerSetsName(r, n)
    \/ \E r \in held \cup given : \E v \in SUBSET Keys : CallerSetsData(r, v)
    \/ CallerPopsArray

Init == Construct(Configs) /\ HunterNew /\ ScoreIdle /\ DeceptionNew /\ ExtNew

Next == ApiNext

Spec == Init /\ [][Next]_vars

NextAlias == ApiNext \/ CallerNext

\* Aliasing does not depend on the graph: the two-state cycle of the test suite.
AliasConfigs ==
    {c \in Configs : /\ c.initialState = "IDLE"
                     /\ c.transitions["IDLE"] = {"PROCESSING"}
                     /\ c.transitions["PROCESSING"] = {"IDLE"}}

InitAlias == Construct(AliasConfigs) /\ HunterNew /\ ScoreIdle /\ DeceptionNew /\ ExtNew

SpecAlias == InitAlias /\ [][NextAlias]_vars

\* The hunter is given a state machine and never calls it.
InitHunter == Construct(AliasConfigs) /\ HunterNew /\ ScoreIdle /\ DeceptionNew /\ ExtNew

NextHunter ==
    \/ \E p \in InitCalls : initStart(p)
    \/ \E p \in InitCalls : initCnn(p)
    \/ \E p \in InitCalls : initLstm(p)
    \/ \E p \in InitCalls : initEnsemble(p)
    \/ dispose
    \/ \E c \in Contents : analyze(c)
    \/ \E c \in Contents : \E h \in BOOLEAN : analyzeWithML(c, h, ProbEnds, Probs)

SpecHunter == InitHunter /\ [][NextHunter]_vars

InitScore ==
    /\ Construct(AliasConfigs)
    /\ HunterNew
    /\ sRegex \in RegexInputs
    /\ sMl \in MlInputs
    /\ sHybrid = [called |-> FALSE]
    /\ sVerdict = <<>>
    /\ DeceptionNew /\ ExtNew

NextScore == CallHybrid

SpecScore == InitScore /\ [][NextScore]_vars

\* The hunter with rules registered at run time: one initializeML call, no
\* dispose.
NextPatterns ==
    \/ initStart(1)
    \/ initCnn(1)
    \/ initLstm(1)
    \/ initEnsemble(1)
    \/ \E pt \in CustomPatterns : addPattern(pt)
    \/ \E c \in Contents : analyze(c)
    \/ \E c \in Contents : \E h \in BOOLEAN : analyzeWithML(c, h, {Num(1)}, ProbEnds)

SpecPatterns == InitHunter /\ [][NextPatterns]_vars

InitVerdict == Construct(AliasConfigs) /\ HunterNew /\ ScoreIdle /\ DeceptionNew /\ ExtNew

NextVerdict == \E x \in VerdictInputs : CallVerdict(x)

SpecVerdict == InitVerdict /\ [][NextVerdict]_vars

\* snapshot pairs for getConfidence and runFullAnalysis: nothing changed,
\* the url changed, the rest of the page changed
ClickPairs ==
    LET page(url, dom) == <<Entry("url", url), Entry("dom", dom)>>
    IN  { <<page("a", "a"), page("a", "a")>>,
          <<page("a", "a"), page("b", "a")>>,
          <<page("a", "a"), page("a", "b")>> }

\* The pure functions of DeceptionHunter.
NextClick ==
    \/ \E before \in Snapshots : \E after \in Snapshots : CallVerifyClick(before, after)
    \/ \E m \in MatchedInputs : \E ba \in ClickPairs :
            CallGetConfidence(m, ba[1], ba[2])

SpecClick == InitHunter /\ [][NextClick]_vars

\* DeceptionHunter with rules registered at run time.
NextDeception ==
    \/ \E pt \in CustomPatterns : dhAddPattern(pt)
    \/ \E c \in Contents : dhAnalyze(c)
    \/ \E c \in Contents : \E ba \in ClickPairs : runFullAnalysis(c, ba[1], ba[2])

SpecDeception == InitHunter /\ [][NextDeception]_vars

\* Both pattern classifiers, the hybrid one given the rules of the other in
\* the same order.
NextAnalyzers ==
    \/ \E pt \in CustomPatterns : dhAddPattern(pt)
    \/ \E c \in Contents : dhAnalyze(c)
    \/ \E pt \in CustomPatterns :
            /\ Len(patterns) < Len(bPatterns)
            /\ pt = bPatterns[Len(patterns) + 1]
            /\ addPattern(pt)
    \/ \E c \in Contents : analyze(c)

SpecAnalyzers == InitHunter /\ [][NextAnalyzers]_vars


\* The three learned models, each used directly by a caller.
NextModels ==
    \/ \E k \in Kinds : modelInitialize(k)
    \/ \E k \in Kinds : \E v \in ProbEnds : modelPredict(k, v)
    \/ \E k \in Kinds : modelDispose(k)

SpecModels == InitHunter /\ [][NextModels]_vars

\* The vocabulary of a preprocessor: capacities below, at and above the
\* number of seeded tokens.
VocabSizes == {10, Len(commonTokens), Len(commonTokens) + 1, Len(commonTokens) + 2}

InitVocab ==
    /\ Construct(AliasConfigs) /\ HunterNew /\ ScoreIdle /\ DeceptionNew
    /\ ModelsNew /\ PreprocessorNew(VocabSizes, {100}) /\ FlightNew

NextVocab ==
    \/ \E tokens \in SeqsUpTo(NewTokens, MaxTokens) : addTokens(tokens)
    \/ getVocab
    \/ CallerSetsVocab("captcha", 0)
    \/ CallerSetsVocab("mine", 1)
    \/ CallerDeletesVocab("captcha")

SpecVocab == InitVocab /\ [][NextVocab]_vars

\* Interaction histories shorter than, as long as and longer than the
\* sequence length.
SequenceLengths == {1, 2}

\* the history the caller is about to pass
InitSequence ==
    /\ Construct(AliasConfigs) /\ HunterNew /\ ScoreIdle /\ DeceptionNew
    /\ ModelsNew /\ FlightNew
    /\ vocabSize = 1000
    /\ sequenceLength \in SequenceLengths
    /\ vocab = DefaultVocab
    /\ vCopy = [ref |-> "none", map |-> <<>>]
    /\ pLast \in {[op |-> "history", interactions |-> i] :
                    i \in SeqsUpTo(Interactions, MaxInteractions)}

NextSequence ==
    /\ pLast.op = "history"
    /\ sequenceFromInteractions(pLast.interactions)

SpecSequence == InitSequence /\ [][NextSequence]_vars

\* The state machine changed by transition() alone, the calls overlapping.
NextFlight ==
    \/ \E p \in TransCalls : \E to \in Names : transitionCall(p, to, [kind |-> "default"])
    \/ \E p \in TransCalls : transitionReturn(p)
    \/ getHistory

SpecFlight == Init /\ [][NextFlight]_vars

\* The hunter with analyzeWithML calls suspended at their awaits while
\* initializeML and dispose run.
NextTensors ==
    \/ initStart(1)
    \/ initCnn(1)
    \/ initLstm(1)
    \/ initEnsemble(1)
    \/ dispose
    \/ \E q \in AwCalls : \E h \in BOOLEAN : awStart(q, PageRecaptcha, h, Num(1))
    \/ \E q \in AwCalls : \E m \in ProbEnds : awCnn(q, Num(1), m)
    \/ \E q \in AwCalls : \E m \in ProbEnds : awLstm(q, m)
    \/ \E q \in AwCalls : awEnsemble(q)

SpecTensors == InitHunter /\ [][NextTensors]_vars

----------------------------------------------------------------------------
(* Properties of the state machine *)

CallerOps == {"callerSetsName", "callerSetsData", "callerPopsArray"}

IdsOf(v) == {v.current.id} \cup {v.history[i].id : i \in DOMAIN v.history}

\* C1: transition(to) succeeds (and makes `to` current) if and only if `to`
\* is in transitions[from], for every configuration the constructor accepts.
C1_TransitionIffAllowed ==
    last.op = "transition" =>
        /\ last.ok <=> (last.arg \in Allowed(last.pre.current.name))
        /\ last.ok => View.current.name = last.arg

\* C2: the name of the current state is always a member of the states set.
C2_CurrentInStates == objs[current].name \in config.states

\* C3: setState(s) succeeds if and only if s is in the states set, whatever
\* the current state and the table; on success s is current and exactly one
\* entry, carrying s, has been appended to history.
C3_SetStateIffMember ==
    last.op = "setState" =>
        /\ last.ok <=> (last.arg \in config.states)
        /\ last.ok =>
            /\ View.current.name = last.arg
            /\ Len(history) = Len(last.pre.history) + 1
            /\ \A i \in 1..Len(last.pre.history) : View.history[i] = last.pre.history[i]
            /\ View.history[Len(history)] = View.current

\* a setState that the transition table would not have allowed
C3_Witness ==
    /\ last.op = "setState"
    /\ last.ok
    /\ last.arg \notin Allowed(last.pre.current.name)

\* C4: a failed setState or transition leaves the current state (id, name,
\* timestamp, data) and the whole history as they were before the call.
C4_FailedCallChangesNothing ==
    (last.op \in {"setState", "transition"} /\ ~last.ok) => View = last.pre

\* a transition refused with InvalidStateName after the machine has moved
C4_Witness ==
    /\ last.op = "transition"
    /\ last.err = "InvalidStateName"
    /\ Len(history) > 1

\* C5: without reset, after N successful setState/transition calls history
\* has N+1 entries and entry i+1 carries the name of the i-th successful call.
C5_HistoryLength ==
    ~resetUsed =>
        /\ Len(history) = Len(calls) + 1
        /\ \A i \in 1..Len(calls) : View.history[i + 1].name = calls[i]

\* two successful calls followed by a failed one
C5_Witness ==
    /\ ~resetUsed
    /\ Len(calls) = 2
    /\ calls[1] # calls[2]
    /\ ~last.ok

\* C6: the name and data of history[0] change under no call and no caller
\* write other than reset.
C6_InitialEntryFrozen ==
    last.op \notin {"constructor", "reset"} =>
        /\ View.history[1].name = last.pre.history[1].name
        /\ View.history[1].data = last.pre.history[1].data

C8_DefensiveCopies ==
    (last.op \in CallerOps /\ last.src = "getter") => View = last.pre

----------------------------------------------------------------------------
(* Properties of the hybrid hunter and of the scoring functions *)

Types(matched) == [i \in 1..Len(matched) |-> matched[i].type]

PredefinedTypes == {"CAPTCHA", "HONEYPOT", "PHISHING", "FAKE_ELEMENT"}

\* what the predefined rules find in each page, read off the rules by hand
ExpectedTypes(content) ==
    IF content = PageRecaptcha THEN <<"CAPTCHA">>
    ELSE IF content = PageHidden THEN <<"FAKE_ELEMENT">>
    ELSE IF content = PageFakeLogin THEN <<"HONEYPOT", "PHISHING", "FAKE_ELEMENT">>
    ELSE IF content = PageEverything
    THEN <<"CAPTCHA", "HONEYPOT", "PHISHING", "FAKE_ELEMENT">>
    ELSE <<>>

\* C9: while no initializeML call has completed since construction or since
\* the last dispose, analyzeWithML fails with the not-initialized error and
\* returns nothing; analyze succeeds in either phase with the same matches.
C9_TwoPhases ==
    /\ (hLast.op = "analyzeWithML" /\ hLast.phase = "unconfigured") =>
            (hLast.err = "ModelNotInitialized" /\ ~hLast.result.returned)
    /\ hLast.op = "analyze" =>
            /\ hLast.err = "none"
            /\ SelectSeq(Types(hLast.matched), LAMBDA t : t \in PredefinedTypes)
                 = ExpectedTypes(hLast.content)

\* analyzeWithML refused after a dispose of the models of a ready hunter
C9_Witness ==
    /\ hLast.op = "analyzeWithML"
    /\ hLast.phase = "unconfigured"
    /\ hLast.err = "ModelNotInitialized"
    /\ ensemble # 0
    /\ ~models[ensemble].live

\* analyze finding something while the hunter is ready
C9_WitnessAnalyzeReady ==
    /\ hLast.op = "analyze"
    /\ hLast.phase = "ready"
    /\ hLast.matched # <<>>

\* analyze finding something while the hunter is not ready
C9_WitnessAnalyzeUnconfigured ==
    /\ hLast.op = "analyze"
    /\ hLast.phase = "unconfigured"
    /\ hLast.matched # <<>>

\* C10 as stated: calculateHybridScore(r, m) = r*0.40 + m*100*0.60 for a
\* probability m, and calculateHybridScore(75, 0.85) = 81.0.
C10_HybridOfProbability ==
    sHybrid.called =>
        /\ sHybrid.value * 100 = (sRegex * 40) + (sMl * 100 * 60)
        /\ (sRegex = Num(75) /\ sMl = 850) => sHybrid.value = Num(81)

\* C10 as the code has it: calculateHybridScore(r, m) = r*0.40 + m*0.60, the
\* second argument taken as given; calculateHybridScore(75, 0.85) = 30.51.
C10_HybridUnscaled ==
    sHybrid.called =>
        /\ sHybrid.value * 100 = (sRegex * 40) + (sMl * 60)
        /\ (sRegex = Num(75) /\ sMl = 850) => sHybrid.value = 30510

\* calculateHybridScore(75, 0.85) has been called
C10_Witness ==
    /\ sHybrid.called
    /\ sRegex = Num(75)
    /\ sMl = 850

\* C11: for r and s both on the 0-100 scale, calculateHybridScore(r, s) is
\* r*0.40 + s*0.60, and the result lies in [0,100].
C11_HybridOfPercent ==
    (sHybrid.called /\ sRegex \in 0..Num(100) /\ sMl \in 0..Num(100)) =>
        /\ sHybrid.value * 100 = (sRegex * 40) + (sMl * 60)
        /\ sHybrid.value \in 0..Num(100)

\* calculateHybridScore(75, 85), the call of the test suite
C11_Witness ==
    /\ sHybrid.called
    /\ sRegex = Num(75)
    /\ sMl = Num(85)
    /\ sHybrid.value = Num(81)

\* both arguments at the top of the scale
C11_WitnessTop ==
    /\ sHybrid.called
    /\ sRegex = Num(100)
    /\ sMl = Num(100)
    /\ sHybrid.value = Num(100)

Rank(verdict) ==
    IF verdict = "SAFE" THEN 0
    ELSE IF verdict = "LOW_RISK" THEN 1
    ELSE IF verdict = "MEDIUM" THEN 2 ELSE 3

\* C12: getVerdict(score) is SAFE below 0.2, LOW_RISK from 0.2 and below 0.4,
\* MEDIUM from 0.4 and below 0.7, HIGH_THREAT from 0.7; of two calls, the one
\* with the larger score never gets the lower verdict.
C12_VerdictSteps ==
    /\ \A i \in DOMAIN sVerdict :
          LET x == sVerdict[i].score
              v == sVerdict[i].verdict
          IN  /\ (v = "SAFE") <=> (x < 200)
              /\ (v = "LOW_RISK") <=> (200 <= x /\ x < 400)
              /\ (v = "MEDIUM") <=> (400 <= x /\ x < 700)
              /\ (v = "HIGH_THREAT") <=> (700 <= x)
    /\ \A i, j \in DOMAIN sVerdict :
          sVerdict[i].score <= sVerdict[j].score =>
              Rank(sVerdict[i].verdict) <= Rank(sVerdict[j].verdict)

\* getVerdict(0.2) after getVerdict(0.199): the verdict steps up at the boundary
C12_Witness ==
    /\ Len(sVerdict) = 2
    /\ sVerdict[2].score = 199
    /\ sVerdict[2].verdict = "SAFE"
    /\ sVerdict[1].score = 200
    /\ sVerdict[1].verdict = "LOW_RISK"

\* C13: every result analyzeWithML returns in the ready phase has
\* final_score = regex_score*0.40 + ml_score*0.60, with regex_score, ml_score
\* and final_score in [0,100].
C13_FusedScore ==
    (hLast.op = "analyzeWithML" /\ hLast.phase = "ready" /\ hLast.result.returned) =>
        LET r == hLast.result
        IN  /\ r.final_score * 100 = (r.regex_score * 40) + (r.ml_score * 60)
            /\ r.regex_score \in 0..Num(100)
            /\ r.ml_score \in 0..Num(100)
            /\ r.final_score \in 0..Num(100)

\* a result fused from a regex score and a model score that are both positive
C13_Witness ==
    /\ hLast.op = "analyzeWithML"
    /\ hLast.phase = "ready"
    /\ hLast.result.returned
    /\ hLast.result.regex_score = Num(70)
    /\ hLast.result.ml_score = Num(50)
    /\ hLast.result.final_score = Num(58)
    /\ hLast.result.lstm_score > 0

\* C14: every result analyzeWithML returns has confidence =
\* min(1, final_score/100), in [0,1], and verdict = getVerdict(confidence):
\* SAFE for final_score < 20, LOW_RISK from 20 and below 40, MEDIUM from 40
\* and below 70, HIGH_THREAT from 70.
C14_ConfidenceAndVerdict ==
    (hLast.op = "analyzeWithML" /\ hLast.result.returned) =>
        LET r == hLast.result
            f == r.final_score
        IN  /\ r.confidence * 100 = (IF f < Num(100) THEN f ELSE Num(100))
            /\ r.confidence \in 0..Num(1)
            /\ r.verdict = getVerdict(r.confidence)
            /\ (r.verdict = "SAFE") <=> (f < Num(20))
            /\ (r.verdict = "LOW_RISK") <=> (Num(20) <= f /\ f < Num(40))
            /\ (r.verdict = "MEDIUM") <=> (Num(40) <= f /\ f < Num(70))
            /\ (r.verdict = "HIGH_THREAT") <=> (Num(70) <= f)

\* a final score of exactly 70, the lowest that is a HIGH_THREAT
C14_Witness ==
    /\ hLast.op = "analyzeWithML"
    /\ hLast.result.returned
    /\ hLast.result.final_score = Num(70)
    /\ hLast.result.confidence = 700
    /\ hLast.result.verdict = "HIGH_THREAT"

\* a final score of exactly 40, the lowest that is a MEDIUM
C14_WitnessMedium ==
    /\ hLast.op = "analyzeWithML"
    /\ hLast.result.returned
    /\ hLast.result.final_score = Num(40)
    /\ hLast.result.verdict = "MEDIUM"

RECURSIVE SeverityWeightSum(_)
SeverityWeightSum(matched) ==
    IF matched = <<>> THEN 0
    ELSE (IF Head(matched).severity = "low" THEN 10
          ELSE IF Head(matched).severity = "medium" THEN 20 ELSE 30)
         + SeverityWeightSum(Tail(matched))

\* C15: the regex score of the learned-fusion path is min(100, sum over the
\* matched patterns of low=10, medium=20, high=30), is 0 when nothing matches
\* and lies in [0,100], whatever patterns addPattern has registered.
C15_RegexScore ==
    (hLast.op = "analyzeWithML" /\ hLast.result.returned) =>
        LET r == hLast.result
            sum == SeverityWeightSum(r.matched_patterns)
        IN  /\ r.regex_score = Num(IF sum < 100 THEN sum ELSE 100)
            /\ (r.matched_patterns = <<>>) => (r.regex_score = 0)
            /\ r.regex_score \in 0..Num(100)

\* five matches, one from an added rule, whose weights sum to 110
C15_Witness ==
    /\ hLast.op = "analyzeWithML"
    /\ hLast.result.returned
    /\ Len(hLast.result.matched_patterns) = 5
    /\ SeverityWeightSum(hLast.result.matched_patterns) = 110
    /\ hLast.result.regex_score = Num(100)

----------------------------------------------------------------------------
(* Properties of the pattern classifier *)

RECURSIVE PenaltySum(_)
PenaltySum(matched) ==
    IF matched = <<>> THEN 0
    ELSE (IF Head(matched).severity = "low" THEN 10
          ELSE IF Head(matched).severity = "medium" THEN 30 ELSE 50)
         + PenaltySum(Tail(matched))

\* C16: getConfidence returns 0 when the click is not verified, otherwise
\* max(0, 100 - sum of the penalties low=10, medium=30, high=50 of the matched
\* patterns); the result is in [0,100].
C16_Confidence ==
    bLast.op = "getConfidence" =>
        LET left == 100 - PenaltySum(bLast.matched)
        IN  /\ ~bLast.click.verified => bLast.result = Num(0)
            /\ bLast.click.verified =>
                   bLast.result = Num(IF left > 0 THEN left ELSE 0)
            /\ bLast.result \in 0..Num(100)

\* a verified click with penalties of 110, floored at 0
C16_Witness ==
    /\ bLast.op = "getConfidence"
    /\ bLast.click.verified
    /\ PenaltySum(bLast.matched) = 110
    /\ bLast.result = Num(0)

\* a verified click with one pattern of each predefined severity
C16_WitnessPartial ==
    /\ bLast.op = "getConfidence"
    /\ bLast.click.verified
    /\ PenaltySum(bLast.matched) = 80
    /\ bLast.result = Num(20)

\* C17: runFullAnalysis reports verified exactly when verifyClick(before,
\* after) is verified and the confidence of getConfidence is above 50; its
\* matched_patterns are the types analyze(content) returns, in that order.
C17_FullAnalysis ==
    (bLast.op = "runFullAnalysis" /\ bLast.result.returned) =>
        LET r == bLast.result
            click == verifyClick(bLast.before, bLast.after)
            found == DeceptionAnalyze(bLast.content).matched
        IN  /\ r.confidence = getConfidence(found, click)
            /\ r.verified <=> (click.verified /\ r.confidence > Num(50))
            /\ r.matched_patterns = Types(found)

\* a verified click on a page with one high-severity match: confidence 50,
\* which is not above 50
C17_Witness ==
    /\ bLast.op = "runFullAnalysis"
    /\ bLast.result.returned
    /\ bLast.result.matched_patterns = <<"CAPTCHA">>
    /\ bLast.result.confidence = Num(50)
    /\ verifyClick(bLast.before, bLast.after).verified
    /\ ~bLast.result.verified

\* a verified click on a page with no match
C17_WitnessVerified ==
    /\ bLast.op = "runFullAnalysis"
    /\ bLast.result.returned
    /\ bLast.result.matched_patterns = <<>>
    /\ bLast.result.verified

\* the same keys with the same values, in whatever order they were inserted
DeepEqual(before, after) ==
    {<<before[i].key, before[i].value>> : i \in DOMAIN before}
        = {<<after[i].key, after[i].value>> : i \in DOMAIN after}

\* the first sentence of C18: verified (confidence 1.0) if the url fields
\* differ, else if the serialized snapshots differ, otherwise not verified
\* (confidence 0.0).
VerifyClickBySerialization ==
    bLast.op = "verifyClick" =>
        LET r == bLast.result
        IN  /\ r.verified <=>
                   \/ Field(bLast.before, "url") # Field(bLast.after, "url")
                   \/ JSONstringify(bLast.before) # JSONstringify(bLast.after)
            /\ r.confidence = (IF r.verified THEN Num(1) ELSE Num(0))

\* C18: verifyClick is verified (confidence 1.0) if the url fields differ,
\* else if the serialized snapshots differ, otherwise not verified
\* (confidence 0.0); whenever before is deep-equal to after the result is
\* verified = false, confidence = 0.0.
C18_VerifyClick ==
    /\ VerifyClickBySerialization
    /\ (bLast.op = "verifyClick" /\ DeepEqual(bLast.before, bLast.after)) =>
           (~bLast.result.verified /\ bLast.result.confidence = Num(0))

\* C19: in DeceptionHunter.analyze and in MLDeceptionHunter.analyze a rule
\* that fails to compile is skipped: analyze does not fail, and the other
\* registered patterns that match the content are returned.
C19_BadRuleSkipped ==
    /\ bLast.op = "analyze" =>
          /\ bLast.err = "none"
          /\ SelectSeq(Types(bLast.matched), LAMBDA t : t \in PredefinedTypes)
               = ExpectedTypes(bLast.content)
    /\ hLast.op = "analyze" =>
          /\ hLast.err = "none"
          /\ SelectSeq(Types(hLast.matched), LAMBDA t : t \in PredefinedTypes)
               = ExpectedTypes(hLast.content)

\* the half of C19 that is about MLDeceptionHunter.analyze
BadRuleSkippedML ==
    (hLast.op = "analyze" /\ \E i \in DOMAIN hLast.pre : hLast.pre[i].type = "BROKEN") =>
        /\ hLast.err = "none"
        /\ SelectSeq(Types(hLast.matched), LAMBDA t : t \in PredefinedTypes)
             = ExpectedTypes(hLast.content)

\* the elements of `matched`, listed in the order of `registered`
InOrderOf(registered, matched) ==
    SelectSeq(registered, LAMBDA pt : \E i \in DOMAIN matched : matched[i] = pt)

\* C20: analyze(content) leaves the registered patterns as they were, returns
\* what the previous call with the same content returned, and returns its
\* matches in registration order, the predefined patterns first, rules with
\* the global flag included.
C20_PureAndOrdered ==
    /\ (bLast.op = "analyze" /\ bLast.err = "none") =>
          /\ bPatterns = bLast.pre
          /\ SubSeq(bLast.pre, 1, 4) = PredefinedPatterns
          /\ bLast.matched = InOrderOf(bLast.pre, bLast.matched)
          /\ bLast.repeat => bLast.matched = bLast.prev
    /\ hLast.op = "analyze" =>
          /\ patterns = hLast.pre
          /\ SubSeq(hLast.pre, 1, 4) = PredefinedPatterns
          /\ hLast.matched = InOrderOf(hLast.pre, hLast.matched)

\* a repeated analyze whose matches are the four predefined patterns and then
\* two added rules, the first with the global flag, in the order they were
\* added
C20_Witness ==
    /\ bLast.op = "analyze"
    /\ bLast.err = "none"
    /\ bLast.repeat
    /\ Types(bLast.matched)
         = <<"CAPTCHA", "HONEYPOT", "PHISHING", "FAKE_ELEMENT", "TRACKER", "DOTALL">>
    /\ "g" \in FlagSet(bLast.matched[5].regex.flags)

\* the same for the hybrid hunter, which passes over the rule with the s flag
C20_WitnessML ==
    /\ hLast.op = "analyze"
    /\ Types(hLast.pre)
         = <<"CAPTCHA", "HONEYPOT", "PHISHING", "FAKE_ELEMENT", "DOTALL", "TRACKER">>
    /\ Types(hLast.matched)
         = <<"CAPTCHA", "HONEYPOT", "PHISHING", "FAKE_ELEMENT", "TRACKER">>

----------------------------------------------------------------------------
(* Properties of the learned models *)

\* C21: on each of the three learned models, every predict call issued after
\* dispose() was called on that instance fails with an error and returns no
\* probability, whatever initialize, predict and dispose calls came before.
C21_PredictAfterDispose ==
    (iLast.op = "predict" /\ iLast.disposed # "no")
        => (~iLast.returned /\ iLast.err # "none")

\* The part of C21 the code keeps: predicting on a released instance that was
\* not initialized again fails.
PredictOnReleasedFails ==
    (iLast.op = "predict" /\ iLast.disposed = "yes")
        => (~iLast.returned /\ iLast.err = "NotInitialized")

\* predict on a released instance has been called, on every kind of model
PredictOnReleasedSeen ==
    iLast.op = "predict" /\ iLast.disposed = "yes" /\ iLast.kind = "ensemble"

----------------------------------------------------------------------------
(* Properties of the preprocessor *)

\* C22: for every configured vocabSize, after construction and after any
\* sequence of addTokens calls the vocabulary has at most vocabSize entries,
\* every token maps to an index of its own, and a write to the map getVocab
\* returned leaves the vocabulary as it was.
C22_VocabBounded ==
    /\ MapSize(vocab) <= vocabSize
    /\ \A s \in DOMAIN vocab : \A t \in DOMAIN vocab : s # t => vocab[s] # vocab[t]
    /\ pLast.op = "callerWrites" => vocab = pLast.pre

\* The part of C22 the code keeps: addTokens never grows the vocabulary past
\* the larger of vocabSize and the seed, the indices are distinct, and the
\* map handed out is a copy.
VocabBoundedAboveSeed ==
    /\ MapSize(vocab) <= Max(vocabSize, Len(commonTokens))
    /\ \A s \in DOMAIN vocab : \A t \in DOMAIN vocab : s # t => vocab[s] # vocab[t]
    /\ pLast.op = "callerWrites" => vocab = pLast.pre
    /\ pLast.op = "addTokens" =>
            \A t \in DOMAIN pLast.pre : t \in DOMAIN vocab /\ vocab[t] = pLast.pre[t]

\* the vocabulary has been filled to its capacity and the caller has written
\* to a copy of it
VocabFullSeen ==
    /\ vocabSize > Len(commonTokens)
    /\ MapSize(vocab) = vocabSize
    /\ pLast.op = "callerWrites"
    /\ "mine" \in DOMAIN vCopy.map


\* the action weights as the specification lists them
ActionWeight(action) ==
    IF action \in {"CLICK", "SUBMIT"} THEN Num(1)
    ELSE IF action = "INPUT" THEN 700
    ELSE IF action = "HOVER" THEN 500
    ELSE IF action = "SCROLL" THEN 300
    ELSE 100

\* record i as a row: weight, x / 1000, y / 1000, metadata.confidence, a
\* missing field counting as 0
Encoded(interaction) ==
    << ActionWeight(interaction.action),
       IF interaction.x = Undefined THEN 0 ELSE interaction.x,
       IF interaction.y = Undefined THEN 0 ELSE interaction.y,
       IF interaction.confidence = Undefined THEN 0 ELSE interaction.confidence >>

\* L rows of 4 features, the first min(n, L) encoding the records for which
\* `known` holds, the others zero
RowsEncode(known(_)) ==
    pLast.op = "sequenceFromInteractions" =>
        LET n == Len(pLast.interactions)
            L == sequenceLength
            rows == pLast.rows
        IN  /\ Len(rows) = L
            /\ \A i \in 1..L : Len(rows[i]) = 4
            /\ \A i \in 1..Min(n, L) :
                    known(pLast.interactions[i]) => rows[i] = Encoded(pLast.interactions[i])
            /\ \A i \in (Min(n, L) + 1)..L : rows[i] = <<0, 0, 0, 0>>

\* C23: for every list of n interaction records sequenceFromInteractions
\* returns exactly L rows of 4 features; row i encodes record i for
\* i < min(n, L), with weight 1.0 for CLICK and SUBMIT, 0.7 for INPUT, 0.5 for
\* HOVER, 0.3 for SCROLL and 0.1 for any other action; records beyond L are
\* dropped and the remaining rows are zero.
C23_SequenceRows == LET any(interaction) == TRUE IN RowsEncode(any)

\* The part of C23 the code keeps: the same for every action that is not the
\* name of a property of Object.prototype.
SequenceRowsOfPlainActions ==
    LET plain(interaction) == interaction.action \notin ObjectPrototype
    IN  RowsEncode(plain)

\* a history longer than the sequence length has been encoded, and one
\* shorter than it padded
SequenceTruncatedSeen ==
    /\ pLast.op = "sequenceFromInteractions"
    /\ Len(pLast.interactions) > sequenceLength
    /\ pLast.interactions[1].action = "DRAG"

SequencePaddedSeen ==
    /\ pLast.op = "sequenceFromInteractions"
    /\ Len(pLast.interactions) = 1
    /\ sequenceLength = 2
    /\ pLast.interactions[1].action = "INPUT"

----------------------------------------------------------------------------
(* Properties of construction and of overlapping calls *)

\* the initial state is a member of states, and every state the transition
\* table names, as a source with targets or as a target, is one too
WellFormed(c) ==
    /\ c.initialState \in c.states
    /\ \A from \in DOMAIN c.transitions :
            c.transitions[from] # {} =>
                from \in c.states /\ c.transitions[from] \subseteq c.states

\* C24: a configuration whose initial state is not in the states set, or
\* whose transition table names a from-state or to-state outside the states
\* set, is rejected by the constructor: no machine exists with such a
\* configuration.
C24_MalformedRejected == WellFormed(config)

\* C25: with transition() the only call that changes state, under every
\* interleaving of overlapping transition calls each call appends exactly one
\* history entry or fails appending none, and every two consecutive history
\* entries are an edge of the transition table.
C25_TransitionsAtomic ==
    /\ \A p \in TransCalls :
            /\ trPc[p].outcome \in {"pending", "true"} =>
                    trPc[p].after = trPc[p].before + 1
            /\ trPc[p].outcome \in {"IllegalTransition", "InvalidStateName"} =>
                    trPc[p].after = trPc[p].before
    /\ Len(history) = 1 + Len(calls)
    /\ \A i \in 1..(Len(history) - 1) :
            objs[history[i + 1]].name \in Allowed(objs[history[i]].name)

\* two calls are suspended at their awaits, both having changed the state
C25_Witness ==
    /\ trPc[1].pc = "awaiting"
    /\ trPc[2].pc = "awaiting"
    /\ trPc[2].before = trPc[1].after
    /\ Len(history) = 3

\* a call failed while another was suspended
C25_WitnessFailed ==
    /\ trPc[1].pc = "awaiting"
    /\ trPc[2].outcome = "IllegalTransition"
    /\ trPc[2].before = trPc[1].after


\* the models the hunter's fields refer to
Referenced == {cnnModel, lstmModel, ensemble} \ {0}

\* the models initializeML calls in flight are waiting for
Awaited == {initMade[p] : p \in InitCalls} \ {0}

\* C26: whenever mlEnabled is true the content model, the sequence model and
\* the ensemble of the hunter are all created and none of them is disposed,
\* under every interleaving of initializeML, dispose and analyzeWithML.
C26_ReadyMeansLive ==
    mlEnabled =>
        /\ cnnModel # 0 /\ lstmModel # 0 /\ ensemble # 0
        /\ \A r \in Referenced : models[r].live

\* The part of C26 the code keeps: with mlEnabled true the three fields are
\* set.
ReadyMeansCreated == mlEnabled => (cnnModel # 0 /\ lstmModel # 0 /\ ensemble # 0)

\* C27: under every interleaving of two or more initializeML calls, once
\* dispose has been called no model that was created is both undisposed and
\* out of the hunter's reach (neither in a field nor awaited by a call in
\* flight).
C27_NoModelLeftBehind ==
    hLast.op = "dispose" =>
        \A r \in DOMAIN models : models[r].live => r \in Referenced \cup Awaited


\* with an empty history the call makes no sequence tensor and passes 0 to
\* the ensemble as the sequence score
EmptyHistoryScoresZero ==
    \A q \in AwCalls :
        (~awPc[q].hasHistory /\ (awPc[q].pc = "ensemble" \/ awPc[q].done)) =>
            /\ awPc[q].passed = 0
            /\ awPc[q].lstmScore = 0
            /\ awPc[q].holds # 0 => tensors[awPc[q].holds].kind = "content"

\* C28: every tensor an analyzeWithML call created is disposed once the call
\* has completed, whether it returned a result or failed because a prediction
\* threw; with an empty history no sequence tensor is made and the sequence
\* score passed to the ensemble is 0.
C28_TensorsDisposed ==
    /\ \A t \in DOMAIN tensors :
            awPc[tensors[t].by].pc = "idle" => ~tensors[t].live
    /\ EmptyHistoryScoresZero

\* The part of C28 the code keeps: a call that returned a result holds no
\* tensor any more, and the empty history is scored 0.
TensorsDisposedOnReturn ==
    /\ \A q \in AwCalls :
            awPc[q].done =>
                IF awPc[q].err = "none" THEN awPc[q].holds = 0
                ELSE awPc[q].holds # 0 => tensors[awPc[q].holds].live
    /\ EmptyHistoryScoresZero

\* a call with a history has returned, both its tensors disposed
TensorsDisposedSeen ==
    /\ awPc[1].done /\ awPc[1].err = "none" /\ awPc[1].hasHistory
    /\ Len(tensors) = 2
    /\ \A t \in DOMAIN tensors : ~tensors[t].live
    /\ hLast.op = "analyzeWithML" /\ hLast.result.returned

\* a call without a history has reached the ensemble
EmptyHistorySeen ==
    /\ awPc[1].pc = "ensemble" /\ ~awPc[1].hasHistory
    /\ Len(tensors) = 1

----------------------------------------------------------------------------
(* Properties relating the two classifiers, and of the state machine *)

\* both classifiers have last analyzed the same content with the same rules
\* registered in the same order
SameAnalysis ==
    /\ bLast.op = "analyze" /\ hLast.op = "analyze"
    /\ bLast.content = hLast.content
    /\ bLast.pre = hLast.pre

\* C29: given the same addPattern calls and the same content,
\* DeceptionHunter.analyze and MLDeceptionHunter.analyze return the same
\* pattern types in the same order, rules with an empty source, with the s
\* flag and not of the /source/flags form included.
C29_AnalyzersAgree ==
    SameAnalysis =>
        /\ bLast.err = hLast.err
        /\ Types(bLast.matched) = Types(hLast.matched)

\* The part of C29 the code keeps: the two agree when no registered rule has
\* an empty source, the s flag, or a source that does not compile.
AnalyzersAgreeOnCommonRules ==
    (SameAnalysis /\ \A i \in DOMAIN bLast.pre :
                        bLast.pre[i].type \notin {"ANY", "DOTALL", "BROKEN"}) =>
        /\ bLast.err = hLast.err
        /\ Types(bLast.matched) = Types(hLast.matched)

\* both have analyzed a page with a rule added that is not of the
\* /source/flags form, and one with the global flag
AnalyzersAgreeSeen ==
    /\ SameAnalysis
    /\ Types(SubSeq(bLast.pre, 5, Len(bLast.pre))) = <<"BARE", "TRACKER">>
    /\ Types(hLast.matched)
         = <<"CAPTCHA", "HONEYPOT", "PHISHING", "FAKE_ELEMENT", "TRACKER">>

\* C30: after construction and after any sequence of setState, transition and
\* reset calls the history is not empty and its last entry has the id, the
\* name and the timestamp of the current state.
C30_LastEntryIsCurrent ==
    /\ Len(history) > 0
    /\ LET e == objs[history[Len(history)]]
           c == objs[current]
       IN  e.id = c.id /\ e.name = c.name /\ e.timestamp = c.timestamp

\* reset after a state change at a later time: one entry, with a new id and
\* the time of the reset
C30_Witness ==
    /\ last.op = "reset"
    /\ Len(last.pre.history) = 2
    /\ Len(history) = 1
    /\ objs[current].id = 3
    /\ objs[current].timestamp = 1

\* a transition after a reset
C30_WitnessTransition ==
    /\ last.op = "transition" /\ last.ok
    /\ resetUsed
    /\ Len(history) = 2
    /\ objs[current].id = 3

====
